---- MODULE Spec2Model ----
(***************************************************************************)
(* The transcription job pipeline of the VideoNotes / VidLecta backend:    *)
(* admission (videos/router.py), the Celery task transcribe_video          *)
(* (tasks.py) run by a pool of workers, the retention sweeper              *)
(* (services/cleanup_service.py) and the transcription request handler     *)
(* (transcriptions/router.py), over the durable store of database.py.      *)
(***************************************************************************)
EXTENDS Integers, Sequences, FiniteSets, TLC

(***************************************************************************)
(* Bounds of the model.                                                    *)
(***************************************************************************)
\* Jobs admitted in one behaviour.
MaxJobs == 1
\* Redeliveries of an unacknowledged task message by the broker.
MaxRedeliver == 1
\* create_transcription coroutines that can be in flight at once.
MaxInFlight == 2
\* Rows of the videos table in a store the sweeper is run on.
MaxStored == 2
\* Sentences of the first and of the second kind in a text handed to
\* generate_summary.
MaxLead == 11
MaxTail == 9
\* Times generate_summary is called with the same arguments.
MaxRuns == 2

(***************************************************************************)
(* Program constants.                                                      *)
(***************************************************************************)
FREE_MINUTES_LIMIT == 60
STUDENT_MINUTES_LIMIT == 300
PRO_MINUTES_LIMIT == 999999
STORAGE_RETENTION_DAYS == 7
\* @celery_app.task(bind=True, max_retries=3, ...) on transcribe_video
max_retries == 3
\* @celery_app.task(bind=True, max_retries=2) on generate_summary
generate_summary_max_retries == 2
\* worker_concurrency=2
worker_concurrency == 2
\* 1024 * 1024 * 1024, the upload size ceiling
MaxFileSize == 1073741824

ENABLE_CLEANUP_JOB == TRUE

\* Fields of class Settings read by the code of the model, with their
\* defaults.
Defaults ==
  [ENABLE_CLEANUP_JOB |-> ENABLE_CLEANUP_JOB, SMTP_USER |-> "",
   SMTP_PASSWORD |-> ""]

Jobs == 1..MaxJobs
Workers == 1..worker_concurrency
Coroutines == 1..MaxInFlight

\* Optional columns and fields: NULL, or Some(x).
NULL == <<>>
Some(x) == <<x>>

\* The one account of the model (the identity provider's tuple).
UserId == 1

(***************************************************************************)
(* Input domains.                                                          *)
(***************************************************************************)
Tiers == {"free", "student", "pro", "enterprise", ""}
UsedValues ==
  {0, FREE_MINUTES_LIMIT - 1, FREE_MINUTES_LIMIT, FREE_MINUTES_LIMIT + 1,
   STUDENT_MINUTES_LIMIT - 1, STUDENT_MINUTES_LIMIT, STUDENT_MINUTES_LIMIT + 1,
   PRO_MINUTES_LIMIT - 1, PRO_MINUTES_LIMIT, PRO_MINUTES_LIMIT + 1}
ContentTypes == {"video/mp4", "audio/wav", "text/plain"}
RequestLanguages == {"en", "ru", "auto", "fr"}
FileSizes == {1, MaxFileSize, MaxFileSize + 1}
\* Instants of the model's clock, in days: the start, the retention horizon
\* later and one day after that.
Times == {0, STORAGE_RETENTION_DAYS, STORAGE_RETENTION_DAYS + 1}
\* Rows of a store the sweeper finds: every status the program writes, created
\* 0, 1 or 2 days after the start, of 1 byte or of 1 MB.
StoredStatuses ==
  {"pending", "queued", "processing", "completed", "error", "archived"}
StoredCreated == {0, 1, 2}
StoredSizes == {1, 1024 * 1024}
\* Sentences a text is made of: 21 letters, 20 letters, 19 letters after 40
\* spaces, 25 letters, each with its terminator, and 30 letters without one.
SentenceKinds ==
  {<<<<"a", 21>>, <<".", 1>>>>,
   <<<<"b", 20>>, <<"!", 1>>>>,
   <<<<" ", 40>>, <<"c", 19>>, <<"?", 1>>>>,
   <<<<"d", 25>>, <<"?", 1>>>>,
   <<<<"e", 30>>>>}
\* Names of uploaded files, by their suffix, with the content type each is
\* sent with: a video, an audio file to convert, an audio file used as it is.
Uploads ==
  {<<".mp4", "video/mp4">>, <<".mp3", "audio/mpeg">>, <<".wav", "audio/wav">>}

\* if file_ext in ['.mp4', '.mov', '.avi', '.mkv', '.webm']
VideoSuffixes == {".mp4", ".mov", ".avi", ".mkv", ".webm"}

\* The exception a failed conversion ends in, named by its message:
\*  - a video: ffmpeg is run with capture_output and a non-zero return code
\*    raises Exception(f"FFmpeg error: {result.stderr}");
\*  - '.wav': no conversion is made;
\*  - another audio file: ffmpeg is run with check=True and without capture,
\*    and a non-zero return code raises CalledProcessError.
ConversionErrors(file_ext) ==
  IF file_ext \in VideoSuffixes THEN {"FFmpeg error"}
  ELSE IF file_ext = ".wav" THEN {}
  ELSE {"CalledProcessError"}

\* What str(e) is made of: "FFmpeg error: {stderr}" holds what ffmpeg wrote;
\* "Command '[...]' returned non-zero exit status N." holds the command and
\* the return code.
Carries(e) ==
  CASE e = "FFmpeg error" -> {"stderr"}
    [] e = "CalledProcessError" -> {"cmd", "returncode"}
    [] OTHER -> {}

\* Messages of the exceptions the stages of a run on a file can raise:
\* those of the conversion, and that of the model load and the recognition.
StageErrorsOf(file_ext) == ConversionErrors(file_ext) \cup {"RuntimeError"}

StageErrors == UNION {StageErrorsOf(u[1]) : u \in Uploads}
\* Segment lists a recognition result can carry, each segment by its end time
\* in tenths of a second: none, one that ends at 125.0 s, two of which the
\* last ends at 125.9 s.
SegmentLists == {<<>>, <<1250>>, <<600, 1259>>}

\* duration_seconds = 0; if segments: int(segments[-1].get("end", 0)) --
\* int() drops the fraction.
DurationSeconds(segments) ==
  IF segments = <<>> THEN 0 ELSE segments[Len(segments)] \div 10

\* The durations a run can compute.
Durations == {DurationSeconds(segments) : segments \in SegmentLists}

VARIABLES
  user,            \* the account: id, subscription_tier, monthly_minutes_used
  videos,          \* table videos: job id -> row
  transcriptions,  \* table transcriptions: set of rows
  nextTid,         \* next transcription row id (uuid4 stand-in)
  queue,           \* the broker's "transcription" queue: task messages
  downloads,       \* job ids for which download_from_url was enqueued
  workers,         \* worker -> position in transcribe_video and its locals
  sweep,           \* position of cleanup_expired_videos and its selection
  coroutines,      \* in-flight create_transcription requests
  resp,            \* last HTTP response: handler, status code, minutes_limit
  nextId,          \* next job id (uuid4 stand-in)
  now,             \* the clock, in days
  attempts,        \* job id -> runs of transcribe_video started
  lastFailure,     \* job id -> message of the last exception of a run
  redelivered,     \* redeliveries made by the broker
  settings,        \* app.config.settings: the values the deployment runs with
  minio,           \* the MinIO bucket: ids of the jobs whose object exists
  report,          \* what the last run of cleanup_expired_videos logged
  summarizer,      \* the generate_summary task: its message, position, locals
  tmp,             \* local temporary files and directories that exist
  mail             \* what the last call of send_transcription_email returned

vars == <<user, videos, transcriptions, nextTid, queue, downloads, workers,
          sweep, coroutines, resp, nextId, now, attempts, lastFailure,
          redelivered, settings, minio, report, summarizer, tmp, mail>>

store == <<videos, transcriptions, queue, downloads>>

(***************************************************************************)
(* database.py                                                             *)
(***************************************************************************)
\* Mapped attributes of class Transcription (columns and the relationship).
TranscriptionAttrs ==
  {"id", "video_id", "user_id", "language", "text", "summary", "word_count",
   "confidence_score", "processing_time_seconds", "created_at", "updated_at",
   "video"}
\* nullable=False columns of Transcription without a default.
TranscriptionRequired == {"video_id", "user_id", "language", "text"}

\* The declarative constructor: TypeError on a keyword that is no mapped
\* attribute of the class.
ConstructorAccepts(kwargs) == kwargs \subseteq TranscriptionAttrs
\* INSERT of a row built from kwargs: IntegrityError on a NOT NULL column
\* left unset.
InsertAccepts(kwargs) == TranscriptionRequired \subseteq kwargs

\* Video(...) as upload_video and upload_from_url build it; the remaining
\* columns take their defaults (error_message, duration_seconds and
\* processed_at are NULL).
NewVideo(owner, st, url, t, size) ==
  [user_id |-> owner, status |-> st, error_message |-> NULL,
   duration_seconds |-> NULL, processed_at |-> NULL, source_url |-> url,
   created_at |-> t, file_size |-> size]

\* update(Video).where(Video.id == video_id).values(...): rows matched by
\* id only; no row, no effect.
UpdateVideo(vs, id, f, v) ==
  IF id \in DOMAIN vs THEN [vs EXCEPT ![id][f] = v] ELSE vs

(***************************************************************************)
(* videos/router.py: admission                                             *)
(***************************************************************************)
\* limits.get(tier, settings.PRO_MINUTES_LIMIT): the wrong default.
get_minutes_limit_ProDefault(tier) ==
  CASE tier = "free" -> FREE_MINUTES_LIMIT
    [] tier = "student" -> STUDENT_MINUTES_LIMIT
    [] OTHER -> PRO_MINUTES_LIMIT

get_minutes_limit(tier) ==
  CASE tier = "free" -> FREE_MINUTES_LIMIT
    [] tier = "student" -> STUDENT_MINUTES_LIMIT
    [] tier = "pro" -> PRO_MINUTES_LIMIT
    [] OTHER -> FREE_MINUTES_LIMIT

\* ">" written for ">=".
QuotaExceeded_Strict(used, limit) == used > limit

\* current_user.monthly_minutes_used >= minutes_limit
QuotaExceeded(used, limit) == used >= limit

AllowedTypes ==
  {"video/mp4", "video/quicktime", "video/x-msvideo", "video/x-matroska",
   "video/webm", "audio/mpeg", "audio/wav", "audio/x-m4a", "audio/mp3"}
UploadLanguages == {"en", "ru"}
UrlLanguages == {"en", "ru", "auto"}

\* seq alternates from one response to the next, so that two equal responses
\* in a row are still two responses.
Response(op, code, limit, req) ==
  [op |-> op, code |-> code, minutes_limit |-> limit, req |-> req,
   body |-> NULL, seq |-> 1 - resp.seq]

\* No request has been answered yet.
NoResponse ==
  [op |-> "none", code |-> 0, minutes_limit |-> 0, req |-> <<>>, body |-> NULL,
   seq |-> 0]

\* transcribe_video.delay(str(video_id), temp_file_path, language)
TaskMessage(id, file_path, language, retries) ==
  [video_id |-> id, file_path |-> file_path, language |-> language,
   retries |-> retries]

\* temp_dir = tempfile.mkdtemp(); os.path.join(temp_dir, file.filename): a
\* file of the handler's own directory, with the suffix of the upload's name.
TempFile(video_id, filename) == [dir |-> <<"mkdtemp", video_id>>, suffix |-> filename]

\* Names app/tasks.py defines at module level.
TasksExports ==
  {"transcribe_video", "generate_summary", "cleanup_temp_files",
   "send_transcription_email"}

\* The record is added and committed before the check that raises.
Reject_AfterInsert(op, code, limit, req) ==
  /\ resp' = Response(op, code, limit, req)
  /\ videos' = IF nextId \in Jobs
                 THEN videos @@ (nextId :> NewVideo(user.id, "pending", NULL, now, 0))
                 ELSE videos
  /\ UNCHANGED <<transcriptions, queue, downloads, nextId>>

\* raise HTTPException(...) before anything is written.
Reject(op, code, limit, req) ==
  /\ resp' = Response(op, code, limit, req)
  /\ UNCHANGED <<store, nextId>>

\* An admitted upload is charged a minute at admission.
upload_video_ChargesMinute(filename, content_type, language, file_size, broker_up) ==
  /\ LET minutes_limit == get_minutes_limit(user.subscription_tier)
         video_id == nextId
         temp_file_path == TempFile(video_id, filename)
         req == <<content_type, language, file_size>>
     IN  IF QuotaExceeded(user.monthly_minutes_used, minutes_limit)
           THEN Reject("upload_video", 402, minutes_limit, req) /\ UNCHANGED tmp
         ELSE IF content_type \notin AllowedTypes
           THEN Reject("upload_video", 400, minutes_limit, req) /\ UNCHANGED tmp
         ELSE IF language \notin UploadLanguages
           THEN Reject("upload_video", 400, minutes_limit, req) /\ UNCHANGED tmp
         ELSE IF file_size > MaxFileSize
           THEN Reject("upload_video", 400, minutes_limit, req) /\ UNCHANGED tmp
         ELSE /\ nextId <= MaxJobs
              /\ videos' = videos @@ (video_id :> NewVideo(user.id, "pending", NULL, now, file_size))
              /\ nextId' = nextId + 1
              /\ tmp' = tmp \cup {temp_file_path}
              /\ IF broker_up
                   THEN /\ queue' = queue \cup {TaskMessage(video_id, temp_file_path, language, 0)}
                        /\ resp' = Response("upload_video", 200, minutes_limit, req)
                   ELSE /\ UNCHANGED queue
                        /\ resp' = Response("upload_video", 500, minutes_limit, req)
              /\ UNCHANGED <<transcriptions, downloads>>
  /\ user' = IF resp'.code = 200
               THEN [user EXCEPT !.monthly_minutes_used = @ + 1] ELSE user
  /\ UNCHANGED <<nextTid, workers, sweep, coroutines, now, attempts,
                 lastFailure, redelivered,
                 settings, summarizer, minio, report, mail>>

\* filename stands for file.filename, of which the suffix alone matters.
\* The record is added and committed, the file is written to a directory of
\* its own, and then transcribe_video.delay(...) publishes the task message.
\* broker_up tells whether the broker accepts it; when it does not, delay
\* raises after the commit and the request ends in a 500, with the record
\* and the file in place and no message.
upload_video(filename, content_type, language, file_size, broker_up) ==
  /\ LET minutes_limit == get_minutes_limit(user.subscription_tier)
         video_id == nextId
         temp_file_path == TempFile(video_id, filename)
         req == <<content_type, language, file_size>>
     IN  IF QuotaExceeded(user.monthly_minutes_used, minutes_limit)
           THEN Reject("upload_video", 402, minutes_limit, req) /\ UNCHANGED tmp
         ELSE IF content_type \notin AllowedTypes
           THEN Reject("upload_video", 400, minutes_limit, req) /\ UNCHANGED tmp
         ELSE IF language \notin UploadLanguages
           THEN Reject("upload_video", 400, minutes_limit, req) /\ UNCHANGED tmp
         ELSE IF file_size > MaxFileSize
           THEN Reject("upload_video", 400, minutes_limit, req) /\ UNCHANGED tmp
         ELSE /\ nextId <= MaxJobs
              /\ videos' = videos @@ (video_id :> NewVideo(user.id, "pending", NULL, now, file_size))
              /\ nextId' = nextId + 1
              /\ tmp' = tmp \cup {temp_file_path}
              /\ IF broker_up
                   THEN /\ queue' = queue \cup {TaskMessage(video_id, temp_file_path, language, 0)}
                        /\ resp' = Response("upload_video", 200, minutes_limit, req)
                   ELSE /\ UNCHANGED queue
                        /\ resp' = Response("upload_video", 500, minutes_limit, req)
              /\ UNCHANGED <<transcriptions, downloads>>
  /\ UNCHANGED <<user, nextTid, workers, sweep, coroutines, now, attempts,
                 lastFailure, redelivered,
                 settings, summarizer, minio, report, mail>>

\* The handler's first statement is "from app.tasks import download_from_url";
\* app/tasks.py defines no such name, so the import raises ImportError and the
\* request ends in a 500 before the quota check.
upload_from_url(url_valid, language) ==
  /\ LET minutes_limit == get_minutes_limit(user.subscription_tier)
         video_id == nextId
         req == <<url_valid, language>>
     IN  IF "download_from_url" \notin TasksExports
           THEN Reject("upload_from_url", 500, 0, req)
         ELSE IF QuotaExceeded(user.monthly_minutes_used, minutes_limit)
           THEN Reject("upload_from_url", 402, minutes_limit, req)
         ELSE IF ~url_valid
           THEN Reject("upload_from_url", 400, minutes_limit, req)
         ELSE IF language \notin UrlLanguages
           THEN Reject("upload_from_url", 400, minutes_limit, req)
         ELSE /\ nextId <= MaxJobs
              /\ videos' = videos @@ (video_id :> NewVideo(user.id, "queued", Some("url"), now, 0))
              /\ nextId' = nextId + 1
              /\ downloads' = downloads \cup {video_id}
              /\ resp' = Response("upload_from_url", 200, minutes_limit, req)
              /\ UNCHANGED <<transcriptions, queue>>
  /\ UNCHANGED <<user, nextTid, workers, sweep, coroutines, now, attempts,
                 lastFailure, redelivered,
                 settings, summarizer, minio, report,
                 tmp, mail>>

\* VideoResponse(...): the fields of the row, and the count of its
\* transcriptions.
VideoResponse(video, trans_count) ==
  [status |-> video.status, error_message |-> video.error_message,
   duration_seconds |-> video.duration_seconds,
   processed_at |-> video.processed_at, file_size |-> video.file_size,
   transcription_count |-> trans_count]

\* The handler puts a job that failed back to "pending" when it is read.
get_video_Resets(video_id) ==
  /\ IF video_id \notin DOMAIN videos \/ videos[video_id].user_id # user.id
       THEN /\ resp' = Response("get_video", 404, 0, <<video_id>>)
            /\ UNCHANGED videos
       ELSE /\ resp' = [Response("get_video", 200, 0, <<video_id>>) EXCEPT
                          !.body = Some(VideoResponse(videos[video_id], 0))]
            /\ videos' = IF videos[video_id].status = "error"
                           THEN [videos EXCEPT ![video_id].status = "pending"]
                           ELSE videos
  /\ UNCHANGED <<user, transcriptions, nextTid, queue, downloads, workers,
                 sweep, coroutines, nextId, now, attempts, lastFailure,
                 redelivered, settings, minio, report, summarizer, tmp, mail>>

\* get_video: select the video by id and owner (404 without a row), count
\* its transcriptions, return the VideoResponse.  Two SELECTs, no write.
get_video(video_id) ==
  /\ IF video_id \notin DOMAIN videos \/ videos[video_id].user_id # user.id
       THEN resp' = Response("get_video", 404, 0, <<video_id>>)
       ELSE LET video == videos[video_id]
                trans_count ==
                  Cardinality({t \in transcriptions : t.video_id = video_id})
            IN  resp' = [Response("get_video", 200, 0, <<video_id>>) EXCEPT
                           !.body = Some(VideoResponse(video, trans_count))]
  /\ UNCHANGED <<user, videos, transcriptions, nextTid, queue, downloads,
                 workers, sweep, coroutines, nextId, now, attempts, lastFailure,
                 redelivered, settings, minio, report, summarizer, tmp, mail>>

\* The row of the video is deleted, its transcriptions are left in place.
delete_video_KeepsTranscripts(video_id) ==
  /\ IF video_id \notin DOMAIN videos \/ videos[video_id].user_id # user.id
       THEN /\ resp' = Response("delete_video", 404, 0, <<video_id>>)
            /\ UNCHANGED <<videos, transcriptions>>
       ELSE /\ videos' = [j \in DOMAIN videos \ {video_id} |-> videos[j]]
            /\ UNCHANGED transcriptions
            /\ resp' = Response("delete_video", 200, 0, <<video_id>>)
  /\ UNCHANGED <<user, nextTid, queue, downloads, workers, sweep, coroutines,
                 nextId, now, attempts, lastFailure, redelivered, settings,
                 minio, report, summarizer, tmp, mail>>

\* delete_video: select the video by id and owner (404 without a row);
\* "# TODO: Delete from MinIO storage"; db.delete(video), which cascades to
\* the video's transcriptions (relationship cascade "all, delete-orphan");
\* db.commit().  The object in the bucket, the temporary file and the
\* messages of the job are left as they are.
delete_video(video_id) ==
  /\ IF video_id \notin DOMAIN videos \/ videos[video_id].user_id # user.id
       THEN /\ resp' = Response("delete_video", 404, 0, <<video_id>>)
            /\ UNCHANGED <<videos, transcriptions>>
       ELSE /\ videos' = [j \in DOMAIN videos \ {video_id} |-> videos[j]]
            /\ transcriptions' = {t \in transcriptions : t.video_id # video_id}
            /\ resp' = Response("delete_video", 200, 0, <<video_id>>)
  /\ UNCHANGED <<user, nextTid, queue, downloads, workers, sweep, coroutines,
                 nextId, now, attempts, lastFailure, redelivered, settings,
                 minio, report, summarizer, tmp, mail>>

(***************************************************************************)
(* celery_app.py and tasks.py: transcribe_video                            *)
(***************************************************************************)
Idle ==
  [pc |-> "idle", task |-> NULL, exc |-> NULL, duration_seconds |-> NULL,
   detected_language |-> NULL, rollback_pending |-> FALSE,
   soft_limit_hit |-> FALSE]

Task(w) == workers[w].task[1]

\* A worker prefetches one message and starts a run of the task.  With
\* task_acks_late the message stays unacknowledged until the run ends.
Receive(w, m) ==
  /\ workers[w].pc = "idle"
  /\ m \in queue
  /\ queue' = queue \ {m}
  /\ workers' = [workers EXCEPT ![w] = [Idle EXCEPT !.pc = "claim", !.task = Some(m)]]
  /\ attempts' = [attempts EXCEPT ![m.video_id] = @ + 1]
  /\ UNCHANGED <<user, videos, transcriptions, nextTid, downloads, sweep,
                 coroutines, resp, nextId, now, lastFailure, redelivered,
                 settings, summarizer, minio, report,
                 tmp, mail>>

\* The status is written later, with the result.
ClaimUpdate_Deferred(vs, id) == vs

\* update(Video).where(Video.id == video_id).values(status="processing");
\* db.commit()
ClaimUpdate(vs, id) == UpdateVideo(vs, id, "status", "processing")

Claim(w) ==
  /\ workers[w].pc = "claim"
  /\ videos' = ClaimUpdate(videos, Task(w).video_id)
  /\ workers' = [workers EXCEPT ![w].pc = "stages"]
  /\ UNCHANGED <<user, transcriptions, nextTid, queue, downloads, sweep,
                 coroutines, resp, nextId, now, attempts, lastFailure, redelivered,
                 settings, summarizer, minio, report,
                 tmp, mail>>

Raise(w, e) ==
  /\ workers' = [workers EXCEPT ![w].pc = "except", ![w].exc = Some(e)]
  /\ lastFailure' = [lastFailure EXCEPT ![Task(w).video_id] = Some(e)]

\* Languages the recognition engine can report when asked to detect.
WhisperLanguages == {"en", "ru", "fr"}

\* with tempfile.TemporaryDirectory() as temp_dir: the directory of a run,
\* which holds audio.wav; it is removed when control leaves the with block,
\* by the return or by an exception.
WorkDir(w) == [dir |-> <<"TemporaryDirectory", w>>, suffix |-> ""]

\* The stages between the claim and the persist block: the temporary
\* directory, fetch, conversion, model load and recognition.  Any of them may
\* raise, which removes the directory on the way to the except block;
\* otherwise recognition returns the text, the segments and the language.
\* duration_seconds = int(segments[-1]["end"]) or 0 without segments;
\* detected_language = result.get("language", language).
Stages(w) ==
  /\ workers[w].pc = "stages"
  /\ \/ \E e \in StageErrorsOf(Task(w).file_path.suffix) :
          /\ Raise(w, e)
          /\ UNCHANGED <<videos, transcriptions, nextTid, tmp>>
     \/ \E d \in Durations :
        \E l \in (IF Task(w).language = "auto" THEN WhisperLanguages
                                               ELSE {Task(w).language}) :
          /\ workers' = [workers EXCEPT ![w].pc = "persist",
                                        ![w].duration_seconds = Some(d),
                                        ![w].detected_language = Some(l)]
          /\ tmp' = tmp \cup {WorkDir(w)}
          /\ UNCHANGED <<videos, transcriptions, nextTid, lastFailure>>
  /\ UNCHANGED <<user, queue, downloads, sweep, coroutines, resp, nextId, now,
                 attempts, redelivered,
                 settings, summarizer, minio, report, mail>>

\* Keywords of the Transcription(...) call in transcribe_video.
PipelineKwargs ==
  {"id", "video_id", "language", "text", "segments", "status",
   "processing_time_seconds", "created_at"}

\* The persist block: Transcription(...), db.add, the update of the video to
\* "completed" with its duration, and one db.commit() for both.
\*  - the constructor raises TypeError on a keyword that is no attribute of
\*    the class: control goes to the except block with a usable session;
\*  - otherwise the commit flushes the INSERT, which raises IntegrityError on
\*    a NOT NULL column left unset or on a video row that is gone: the
\*    session is then inactive until rolled back;
\*  - otherwise both writes are committed together and the run returns.
\* Each way out leaves the with block, which removes the run's directory.
Persist(w) ==
  /\ workers[w].pc = "persist"
  /\ tmp' = tmp \ {WorkDir(w)}
  /\ LET t == Task(w) IN
     IF ~ConstructorAccepts(PipelineKwargs)
       THEN /\ Raise(w, "TypeError")
            /\ UNCHANGED <<videos, transcriptions, nextTid>>
     ELSE IF ~InsertAccepts(PipelineKwargs) \/ t.video_id \notin DOMAIN videos
       THEN /\ workers' = [workers EXCEPT ![w].pc = "except",
                                          ![w].exc = Some("IntegrityError"),
                                          ![w].rollback_pending = TRUE]
            /\ lastFailure' = [lastFailure EXCEPT ![t.video_id] = Some("IntegrityError")]
            /\ UNCHANGED <<videos, transcriptions, nextTid>>
     ELSE /\ transcriptions' = transcriptions \cup
               {[id |-> nextTid, video_id |-> t.video_id, user_id |-> NULL,
                 language |-> workers[w].detected_language[1],
                 text |-> "text", summary |-> NULL]}
          /\ nextTid' = nextTid + 1
          /\ videos' = UpdateVideo(
                         UpdateVideo(videos, t.video_id, "status", "completed"),
                         t.video_id, "duration_seconds", workers[w].duration_seconds)
          /\ workers' = [workers EXCEPT ![w] = Idle]
          /\ UNCHANGED lastFailure
  /\ UNCHANGED <<user, queue, downloads, sweep, coroutines, resp, nextId, now,
                 attempts, redelivered,
                 settings, summarizer, minio, report, mail>>

\* except Exception as e: update(Video)...values(status="error",
\* error_message=str(e)); db.commit()
ErrorUpdate(vs, id, e) ==
  UpdateVideo(UpdateVideo(vs, id, "status", "error"), id, "error_message", Some(e))

\* With the session inactive the update itself raises (PendingRollbackError)
\* and the run ends there, with neither the status written nor a retry.
Except(w) ==
  /\ workers[w].pc = "except"
  /\ IF workers[w].rollback_pending
       THEN /\ workers' = [workers EXCEPT ![w] = Idle]
            /\ UNCHANGED videos
       ELSE /\ videos' = ErrorUpdate(videos, Task(w).video_id, workers[w].exc[1])
            /\ workers' = [workers EXCEPT ![w].pc = "retry"]
  /\ UNCHANGED <<user, transcriptions, nextTid, queue, downloads, sweep,
                 coroutines, resp, nextId, now, attempts, lastFailure, redelivered,
                 settings, summarizer, minio, report,
                 tmp, mail>>

\* "retries <= max_retries": one retry too many.
CanRetry_Inclusive(retries) == retries <= max_retries

\* Task.retry: a new message is sent unless request.retries + 1 exceeds
\* max_retries, in which case the exception is re-raised and the task fails.
CanRetry(retries) == retries + 1 <= max_retries

\* raise self.retry(exc=e); finally: db.close()
Retry(w) ==
  /\ workers[w].pc = "retry"
  /\ LET t == Task(w) IN
     queue' = IF CanRetry(t.retries)
                THEN queue \cup {TaskMessage(t.video_id, t.file_path, t.language,
                                              t.retries + 1)}
                ELSE queue
  /\ workers' = [workers EXCEPT ![w] = Idle]
  /\ UNCHANGED <<user, videos, transcriptions, nextTid, downloads, sweep,
                 coroutines, resp, nextId, now, attempts, lastFailure, redelivered,
                 settings, summarizer, minio, report,
                 tmp, mail>>

\* task_soft_time_limit=1800: when a run has lasted that long the worker
\* raises SoftTimeLimitExceeded, an Exception, in the task, at whatever
\* statement the run is executing; it does so once in a run.
\*  - inside the try block (claim, stages, persist) the exception is caught by
\*    "except Exception": control leaves the with block, if it was in it, and
\*    goes to the except block;
\*  - inside the except block (before the commit of status "error", or before
\*    self.retry) nothing catches it: finally closes the session and the run
\*    ends there, as a failed task whose message is acknowledged.
SoftTimeLimit(w) ==
  /\ workers[w].pc # "idle"
  /\ ~workers[w].soft_limit_hit
  /\ lastFailure' = [lastFailure EXCEPT ![Task(w).video_id] =
                        Some("SoftTimeLimitExceeded")]
  /\ IF workers[w].pc \in {"claim", "stages", "persist"}
       THEN /\ workers' = [workers EXCEPT
                             ![w].pc = "except",
                             ![w].exc = Some("SoftTimeLimitExceeded"),
                             ![w].soft_limit_hit = TRUE]
            /\ tmp' = tmp \ {WorkDir(w)}
       ELSE /\ workers' = [workers EXCEPT ![w] = Idle]
            /\ UNCHANGED tmp
  /\ UNCHANGED <<user, videos, transcriptions, nextTid, queue, downloads,
                 sweep, coroutines, resp, nextId, now, attempts, redelivered,
                 settings, minio, report, summarizer, mail>>

\* task_acks_late=True: a message is acknowledged only when its run ends, so
\* the broker can hand a message whose run is still going to another worker
\* (lost connection, visibility timeout).
Redeliver(w) ==
  /\ workers[w].pc # "idle"
  /\ redelivered < MaxRedeliver
  /\ Task(w) \notin queue
  /\ queue' = queue \cup {Task(w)}
  /\ redelivered' = redelivered + 1
  /\ UNCHANGED <<user, videos, transcriptions, nextTid, downloads, workers,
                 sweep, coroutines, resp, nextId, now, attempts, lastFailure,
                 settings, summarizer, minio, report,
                 tmp, mail>>

(***************************************************************************)
(* services/cleanup_service.py: cleanup_expired_videos                     *)
(***************************************************************************)
\* Time passes, by days.  A run of a task lasts an hour at most
\* (task_time_limit=3600), so no run spans a tick.
Tick ==
  /\ \A w \in Workers : workers[w].pc = "idle"
  /\ \E t \in Times :
       /\ t > now
       /\ \A u \in Times : u > now => t <= u
       /\ now' = t
  /\ UNCHANGED <<user, videos, transcriptions, nextTid, queue, downloads,
                 workers, sweep, coroutines, resp, nextId, attempts,
                 lastFailure, redelivered,
                 settings, summarizer, minio, report,
                 tmp, mail>>

\* Video.created_at <= cutoff_date: a video exactly at the horizon is taken.
Eligible_Inclusive(v, cutoff_date) ==
  v.created_at <= cutoff_date /\ v.status # "archived"

\* Video.created_at < cutoff_date alone: archived videos are taken again.
Eligible_AnyStatus(v, cutoff_date) == v.created_at < cutoff_date

\* Video.created_at < cutoff_date and Video.status != 'archived', with
\* cutoff_date = utcnow() - timedelta(days)
Eligible(v, cutoff_date) == v.created_at < cutoff_date /\ v.status # "archived"

\* if not settings.ENABLE_CLEANUP_JOB: return -- read as always set.
CleanupEnabled_Always(cfg) == TRUE

CleanupEnabled(cfg) == cfg.ENABLE_CLEANUP_JOB

\* The loop sets the status only of the videos whose object was removed.
MarkedArchived_OnlyRemoved(videos_to_archive, failed) == videos_to_archive \ failed

\* The loop over videos_to_archive: a remove_object that raises is caught and
\* logged inside the loop, and video.status = 'archived' is set after it on
\* every video of the selection.
MarkedArchived(videos_to_archive, failed) == videos_to_archive

\* space_reclaimed: the sum of video.file_size over the selection.
RECURSIVE SpaceReclaimed(_, _)
SpaceReclaimed(vs, sel) ==
  IF sel = {} THEN 0
  ELSE LET j == CHOOSE k \in sel : TRUE
       IN  vs[j].file_size + SpaceReclaimed(vs, sel \ {j})

\* f"{space_reclaimed / (1024 * 1024):.2f}": the figure of the log line, in
\* hundredths of a MB, rounded to the nearest hundredth (ties to even).
FormatMB(bytes) ==
  LET q == (100 * bytes) \div (1024 * 1024)
      r == (100 * bytes) % (1024 * 1024)
  IN  IF 2 * r > 1024 * 1024 \/ (2 * r = 1024 * 1024 /\ q % 2 = 1)
        THEN q + 1 ELSE q

\* One record per run of cleanup_expired_videos: its logger lines.
\*   "disabled"   Cleanup job is disabled in settings
\*   "no_expired" No expired videos found
\*   "found"      Found {found} videos to archive
\*   "completed"  Cleanup completed. Archived {success_count} videos.
\*                Reclaimed {space_mb:.2f} MB; warnings: the videos whose
\*                object could not be deleted
\*   "failed"     Cleanup job failed
\* at is the utcnow() of the run; previous is the line the run before it
\* ended with, when that run was made at the same instant.
Log(kind, found, warnings, success_count, space_mb) ==
  [kind |-> kind, at |-> now, found |-> found, warnings |-> warnings,
   success_count |-> success_count, space_mb |-> space_mb,
   previous |-> IF report.at = now THEN report.kind ELSE "none"]

\* The flag, and the scan.  Flag off, or nothing selected: the run returns.
SweepSelect ==
  /\ sweep.pc = "idle"
  /\ IF ~CleanupEnabled(settings)
       THEN /\ report' = Log("disabled", 0, {}, 0, 0)
            /\ UNCHANGED sweep
       ELSE LET cutoff_date == now - STORAGE_RETENTION_DAYS
                videos_to_archive ==
                  {j \in DOMAIN videos : Eligible(videos[j], cutoff_date)}
            IN  IF videos_to_archive = {}
                  THEN /\ report' = Log("no_expired", 0, {}, 0, 0)
                       /\ UNCHANGED sweep
                  ELSE /\ report' = Log("found", Cardinality(videos_to_archive), {}, 0, 0)
                       /\ sweep' = [pc |-> "loop", sel |-> videos_to_archive]
  /\ UNCHANGED <<user, videos, transcriptions, nextTid, queue, downloads,
                 workers, coroutines, resp, nextId, now, attempts, lastFailure,
                 redelivered, settings, summarizer, minio,
                 tmp, mail>>

\* The commit deletes the transcriptions of the videos it archives.
SweepCommit_DropsTranscriptions(commit_ok) ==
  /\ sweep.pc = "loop"
  /\ \E failed \in SUBSET sweep.sel :
       /\ minio' = minio \ (sweep.sel \ failed)
       /\ videos' = [j \in DOMAIN videos |->
                       IF j \in sweep.sel
                         THEN [videos[j] EXCEPT !.status = "archived"]
                         ELSE videos[j]]
       /\ report' = [report EXCEPT !.kind = "completed", !.warnings = failed,
                                   !.success_count = Cardinality(sweep.sel)]
  /\ transcriptions' = {t \in transcriptions : t.video_id \notin sweep.sel}
  /\ sweep' = [pc |-> "idle", sel |-> {}]
  /\ UNCHANGED <<user, nextTid, queue, downloads, workers, coroutines, resp,
                 nextId, now, attempts, lastFailure, redelivered, settings, summarizer,
                 tmp, mail>>

\* The loop and the commit.  For each selected video remove_object is called
\* (it may raise: failed), its status is set and its size is counted; then
\* db.commit() writes the status of each.  commit_ok tells whether the
\* database accepts the commit; when it does not, or when a selected row is
\* gone (the flush raises StaleDataError), the outer except logs "Cleanup
\* job failed" and rolls back: no status is written, and the objects the
\* loop removed stay removed.
SweepCommit(commit_ok) ==
  /\ sweep.pc = "loop"
  /\ \E failed \in SUBSET sweep.sel :
       /\ minio' = minio \ (sweep.sel \ failed)
       /\ IF commit_ok /\ sweep.sel \subseteq DOMAIN videos
            THEN /\ videos' =
                      [j \in DOMAIN videos |->
                         IF j \in MarkedArchived(sweep.sel, failed)
                           THEN [videos[j] EXCEPT !.status = "archived"]
                           ELSE videos[j]]
                 /\ report' = [Log("completed", report.found, failed,
                                   Cardinality(sweep.sel),
                                   FormatMB(SpaceReclaimed(videos, sweep.sel)))
                                 EXCEPT !.at = report.at,
                                        !.previous = report.previous]
            ELSE /\ report' = [Log("failed", report.found, failed, 0, 0)
                                 EXCEPT !.at = report.at,
                                        !.previous = report.previous]
                 /\ UNCHANGED videos
  /\ sweep' = [pc |-> "idle", sel |-> {}]
  /\ UNCHANGED <<user, transcriptions, nextTid, queue, downloads, workers,
                 coroutines, resp, nextId, now, attempts, lastFailure,
                 redelivered, settings, summarizer,
                 tmp, mail>>

(***************************************************************************)
(* tasks.py: generate_summary                                              *)
(***************************************************************************)
\* A str is modelled by its runs: a sequence of <<character, count>> with
\* count > 0 and no two neighbours of the same character, so that two equal
\* strings are equal values.  "aab." is <<<<"a", 2>>, <<"b", 1>>, <<".", 1>>>>.
\* The sum of the counts of the runs a..b of s.
RECURSIVE RunLength(_, _, _)
RunLength(s, a, b) ==
  IF a > b THEN 0
  ELSE IF a = b THEN s[a][2]
  ELSE LET m == (a + b) \div 2
       IN  RunLength(s, a, m) + RunLength(s, m + 1, b)

\* l + r for two sequences of runs that are each in normal form.
Glue(l, r) ==
  IF l # <<>> /\ r # <<>> /\ l[Len(l)][1] = r[1][1]
    THEN SubSeq(l, 1, Len(l) - 1)
           \o <<<<r[1][1], l[Len(l)][2] + r[1][2]>>>> \o Tail(r)
    ELSE l \o r

\* The runs a..b of s without the empty ones and with neighbours of the same
\* character merged.
RECURSIVE NormRange(_, _, _)
NormRange(s, a, b) ==
  IF a > b THEN <<>>
  ELSE IF a = b THEN (IF s[a][2] = 0 THEN <<>> ELSE <<s[a]>>)
  ELSE LET m == (a + b) \div 2
       IN  Glue(NormRange(s, a, m), NormRange(s, m + 1, b))

Norm(s) == NormRange(s, 1, Len(s))

\* s + t
Cat(s, t) == Norm(s \o t)

\* len(s)
StrLen(s) == RunLength(s, 1, Len(s))

\* s.replace(old, new), for single characters
Replace(s, old, new) ==
  Norm([i \in DOMAIN s |-> IF s[i][1] = old THEN <<new, s[i][2]>> ELSE s[i]])

\* s.split(sep), for a single character: n separators in a row end one piece
\* and give n - 1 empty ones; the piece after the last separator is kept,
\* empty or not.  from is the run at which the piece being read starts.
RECURSIVE SplitFrom(_, _, _)
SplitFrom(s, sep, from) ==
  LET seps == {i \in from..Len(s) : s[i][1] = sep}
  IN  IF seps = {} THEN <<SubSeq(s, from, Len(s))>>
      ELSE LET p == CHOOSE i \in seps : \A k \in seps : i <= k
           IN  <<SubSeq(s, from, p - 1)>> \o [i \in 1..(s[p][2] - 1) |-> <<>>]
                 \o SplitFrom(s, sep, p + 1)

Split(s, sep) == SplitFrom(s, sep, 1)

\* s.strip()
Strip(s) ==
  LET l == IF s # <<>> /\ s[1][1] = " " THEN Tail(s) ELSE s
  IN  IF l # <<>> /\ l[Len(l)][1] = " " THEN SubSeq(l, 1, Len(l) - 1) ELSE l

\* sep.join(parts)
RECURSIVE Join(_, _)
Join(parts, sep) ==
  IF parts = <<>> THEN <<>>
  ELSE IF Len(parts) = 1 THEN parts[1]
  ELSE Cat(parts[1], Cat(sep, Join(Tail(parts), sep)))

\* s[:n]: the runs that fit in n characters, and the part of the next run
\* that fills what is left.
Prefix(s, n) ==
  LET k == Cardinality({i \in DOMAIN s : RunLength(s, 1, i) <= n})
      left == n - RunLength(s, 1, k)
  IN  SubSeq(s, 1, k)
        \o (IF k < Len(s) /\ left > 0 THEN <<<<s[k + 1][1], left>>>> ELSE <<>>)

\* seq[:n]
FirstN(seq, n) == SubSeq(seq, 1, IF Len(seq) < n THEN Len(seq) ELSE n)

\* len(s.strip()) > 20
LongEnough(s) == StrLen(s) > 20

\* text.replace('!', '.').replace('?', '.').split('.'), each fragment
\* stripped
Fragments(text) ==
  LET parts == Split(Replace(Replace(text, "!", "."), "?", "."), ".")
  IN  [i \in DOMAIN parts |-> Strip(parts[i])]

\* [s.strip() for s in sentences if len(s.strip()) > 20]
Sentences(text) == SelectSeq(Fragments(text), LongEnough)

\* The whole text, however long.
Fallback_Whole(text) == text

\* text[:500]
Fallback(text) == Prefix(text, 500)

\* summary = '. '.join(sentences[:5]) + '.' if sentences else text[:500]
Summary(text) ==
  LET sentences == Sentences(text)
  IN  IF sentences # <<>>
        THEN Cat(Join(FirstN(sentences, 5), <<<<".", 1>>, <<" ", 1>>>>), <<<<".", 1>>>>)
        ELSE Fallback(text)

\* key_points = sentences[:10] if len(sentences) > 10 else sentences
KeyPoints(text) ==
  LET sentences == Sentences(text)
  IN  IF Len(sentences) > 10 THEN FirstN(sentences, 10) ELSE sentences

\* update(Transcription).values(**kw): a keyword that names no column of the
\* table makes the statement fail to compile (CompileError).
UpdateAccepts(kw) == kw \subseteq (TranscriptionAttrs \ {"video"})

NoSummary ==
  [pc |-> "idle", transcription_id |-> 0, text |-> <<>>, retries |-> 0,
   runs |-> 0, summary |-> NULL, key_points |-> NULL, first |-> NULL]

\* self.retry(exc=e) sends the message again while retries are left.
SummaryCanRetry(retries) == retries + 1 <= generate_summary_max_retries

\* A run after the first adds a full stop to the summary it computes.
generate_summary_Accumulates ==
  /\ summarizer.pc = "queued"
  /\ LET text == summarizer.text
         summary == IF summarizer.first = NULL
                      THEN Summary(text)
                      ELSE Cat(Summary(text), <<<<".", 1>>>>)
     IN  summarizer' =
           [summarizer EXCEPT
              !.summary = Some(summary), !.key_points = Some(KeyPoints(text)),
              !.retries = IF SummaryCanRetry(@) THEN @ + 1 ELSE @,
              !.pc = IF SummaryCanRetry(summarizer.retries) THEN "queued" ELSE "failed"]
  /\ UNCHANGED <<user, videos, transcriptions, nextTid, queue, downloads,
                 workers, sweep, coroutines, resp, nextId, now, attempts,
                 lastFailure, redelivered, settings, minio, report,
                 tmp, mail>>

\* A run that has no retry left marks the job of the transcription as failed.
generate_summary_RevertsJob ==
  /\ summarizer.pc = "queued"
  /\ LET text == summarizer.text
         computed == [summarizer EXCEPT !.summary = Some(Summary(text)),
                                        !.key_points = Some(KeyPoints(text))]
         owners == {t.video_id : t \in {u \in transcriptions :
                                          u.id = summarizer.transcription_id}}
     IN  IF SummaryCanRetry(summarizer.retries)
           THEN /\ summarizer' = [computed EXCEPT !.retries = @ + 1]
                /\ UNCHANGED videos
           ELSE /\ summarizer' = [computed EXCEPT !.pc = "failed"]
                /\ videos' = [j \in DOMAIN videos |->
                                IF j \in owners
                                  THEN [videos[j] EXCEPT
                                          !.status = "error",
                                          !.error_message = Some("CompileError")]
                                  ELSE videos[j]]
  /\ UNCHANGED <<user, transcriptions, nextTid, queue, downloads, workers,
                 sweep, coroutines, resp, nextId, now, attempts, lastFailure,
                 redelivered, settings, minio, report, tmp, mail>>

\* One run of generate_summary(transcription_id, text): the summary and the
\* key points are computed, then written with one UPDATE and a commit; any
\* exception goes to self.retry.
generate_summary ==
  /\ summarizer.pc = "queued"
  /\ LET text == summarizer.text
         summary == Summary(text)
         key_points == KeyPoints(text)
         computed == [summarizer EXCEPT !.summary = Some(summary),
                                        !.key_points = Some(key_points)]
     IN  IF UpdateAccepts({"summary", "key_points"})
           THEN /\ transcriptions' =
                     {IF t.id = summarizer.transcription_id
                        THEN [t EXCEPT !.summary = Some(summary)] ELSE t :
                      t \in transcriptions}
                /\ summarizer' = [computed EXCEPT !.pc = "done"]
           ELSE /\ UNCHANGED transcriptions
                /\ summarizer' =
                     IF SummaryCanRetry(summarizer.retries)
                       THEN [computed EXCEPT !.retries = @ + 1]
                       ELSE [computed EXCEPT !.pc = "failed"]
  /\ UNCHANGED <<user, videos, nextTid, queue, downloads, workers, sweep,
                 coroutines, resp, nextId, now, attempts, lastFailure,
                 redelivered, settings, minio, report,
                 tmp, mail>>

\* generate_summary is called again with the same arguments, after the run
\* before it has ended; first keeps what that run computed and left.
Resubmit ==
  /\ summarizer.pc \in {"done", "failed"}
  /\ summarizer.runs < MaxRuns
  /\ summarizer' = [summarizer EXCEPT
                      !.pc = "queued", !.retries = 0, !.runs = @ + 1,
                      !.summary = NULL, !.key_points = NULL,
                      !.first = Some([summary |-> summarizer.summary,
                                      key_points |-> summarizer.key_points,
                                      rows |-> transcriptions])]
  /\ UNCHANGED <<user, videos, transcriptions, nextTid, queue, downloads,
                 workers, sweep, coroutines, resp, nextId, now, attempts,
                 lastFailure, redelivered, settings, minio, report,
                 tmp, mail>>

(***************************************************************************)
(* tasks.py: send_transcription_email                                      *)
(***************************************************************************)
\* Fields of class Settings that have to do with mail and links.  The class
\* ignores extra environment variables (extra = "ignore"), so reading any
\* other name raises AttributeError.
MailSettingsAttrs ==
  {"SMTP_HOST", "SMTP_PORT", "SMTP_USER", "SMTP_PASSWORD", "SMTP_FROM_NAME",
   "SMTP_FROM_EMAIL", "SMTP_TLS", "MAILERSEND_API_KEY", "MAILERSEND_FROM_EMAIL",
   "MAILERSEND_FROM_NAME", "FRONTEND_URL", "API_URL"}

\* What the last call did: status is the "status" of the dict it returned,
\* or "raised" when it ended in an exception; exc is the exception that was
\* raised inside its try block.  seq alternates from call to call.
MailResult(st, exc) == [status |-> st, exc |-> exc, seq |-> 1 - mail.seq]

\* No call of send_transcription_email has returned yet.
NoMail == [status |-> "none", exc |-> NULL, seq |-> 0]

\* The exception the try block ends in, if any: msg['From'] reads
\* settings.EMAIL_FROM; then the SMTP session (connect, starttls, login,
\* send_message) fails or not.
MailException(smtp_ok) ==
  IF "EMAIL_FROM" \notin MailSettingsAttrs THEN Some("AttributeError")
  ELSE IF ~smtp_ok THEN Some("SMTPException")
  ELSE NULL

\* The except clause lets the exception through.
send_transcription_email_Propagates(smtp_ok) ==
  /\ mail' = IF settings.SMTP_USER = "" \/ settings.SMTP_PASSWORD = ""
               THEN MailResult("email not configured", NULL)
             ELSE IF MailException(smtp_ok) # NULL
               THEN MailResult("raised", MailException(smtp_ok))
             ELSE MailResult("sent", NULL)
  /\ UNCHANGED <<user, videos, transcriptions, nextTid, queue, downloads,
                 workers, sweep, coroutines, resp, nextId, now, attempts,
                 lastFailure, redelivered, settings, minio, report,
                 summarizer, tmp>>

\* One call of send_transcription_email(user_email, video_title,
\* transcription_id): without SMTP credentials it returns at once; otherwise
\* the message is built and sent inside try, and except Exception turns any
\* failure into the returned dict {"status": "error", ...}.
send_transcription_email(smtp_ok) ==
  /\ mail' = IF settings.SMTP_USER = "" \/ settings.SMTP_PASSWORD = ""
               THEN MailResult("email not configured", NULL)
             ELSE IF MailException(smtp_ok) # NULL
               THEN MailResult("error", MailException(smtp_ok))
             ELSE MailResult("sent", NULL)
  /\ UNCHANGED <<user, videos, transcriptions, nextTid, queue, downloads,
                 workers, sweep, coroutines, resp, nextId, now, attempts,
                 lastFailure, redelivered, settings, minio, report,
                 summarizer, tmp>>

(***************************************************************************)
(* transcriptions/router.py: create_transcription                          *)
(***************************************************************************)
NoRequest == [pc |-> "idle", video_id |-> 0, language |-> ""]

\* "auto" is let through, as on the URL route.
TranscriptionLanguages_WithAuto == {"en", "ru", "auto"}

\* if request.language not in ["en", "ru"]: 400
TranscriptionLanguages == {"en", "ru"}

\* Only a job still pending is refused.
NotYetProcessed_PendingOnly(v) == v.status = "pending"

\* video.status != "completed" -> 400 "Video is not yet processed"
NotYetProcessed(v) == v.status # "completed"

\* One resumption of a create_transcription coroutine.
\*  - from the start: the language check, the select of the video, the status
\*    check and the select of an existing transcription; a request that
\*    passes them all is suspended before its insert;
\*  - at the insert: db.add(transcription); db.commit(), which fails on a
\*    video row that is gone.
create_transcription(c) ==
  /\ IF coroutines[c].pc = "idle"
       THEN /\ \A d \in Coroutines : coroutines[d].pc = "idle" => c <= d
            /\ \E video_id \in Jobs, language \in RequestLanguages :
                   IF language \notin TranscriptionLanguages
                     THEN Reject("create_transcription", 400, 0, <<>>) /\ UNCHANGED <<coroutines, nextTid>>
                   ELSE IF video_id \notin DOMAIN videos \/ videos[video_id].user_id # user.id
                     THEN Reject("create_transcription", 404, 0, <<>>) /\ UNCHANGED <<coroutines, nextTid>>
                   ELSE IF NotYetProcessed(videos[video_id])
                     THEN Reject("create_transcription", 400, 0, <<>>) /\ UNCHANGED <<coroutines, nextTid>>
                   ELSE IF \E t \in transcriptions :
                             t.video_id = video_id /\ t.language = language
                     THEN Reject("create_transcription", 409, 0, <<>>) /\ UNCHANGED <<coroutines, nextTid>>
                   ELSE /\ coroutines' = [coroutines EXCEPT ![c] =
                             [pc |-> "insert", video_id |-> video_id, language |-> language]]
                        /\ UNCHANGED <<store, resp, nextId, nextTid>>
       ELSE /\ coroutines' = [coroutines EXCEPT ![c] = NoRequest]
            /\ UNCHANGED <<videos, queue, downloads, nextId>>
            /\ IF coroutines[c].video_id \in DOMAIN videos
                 THEN /\ transcriptions' = transcriptions \cup
                           {[id |-> nextTid, video_id |-> coroutines[c].video_id,
                             user_id |-> Some(user.id),
                             language |-> coroutines[c].language,
                             text |-> "Transcription processing...",
                             summary |-> NULL]}
                      /\ nextTid' = nextTid + 1
                      /\ resp' = Response("create_transcription", 201, 0, <<>>)
                 ELSE /\ resp' = Response("create_transcription", 500, 0, <<>>)
                      /\ UNCHANGED <<transcriptions, nextTid>>
  /\ UNCHANGED <<user, workers, sweep, now, attempts, lastFailure, redelivered,
                 settings, summarizer, minio, report,
                 tmp, mail>>

(***************************************************************************)
(* Specifications                                                          *)
(***************************************************************************)
Account(tier, used) ==
  [id |-> UserId, subscription_tier |-> tier, monthly_minutes_used |-> used]

InitStore ==
  /\ videos = <<>>
  /\ transcriptions = {}
  /\ nextTid = 1
  /\ queue = {}
  /\ downloads = {}
  /\ workers = [w \in Workers |-> Idle]
  /\ sweep = [pc |-> "idle", sel |-> {}]
  /\ coroutines = [c \in Coroutines |-> NoRequest]
  /\ resp = NoResponse
  /\ nextId = 1
  /\ now = 0
  /\ attempts = [j \in Jobs |-> 0]
  /\ lastFailure = [j \in Jobs |-> NULL]
  /\ redelivered = 0
  /\ minio = {}
  /\ report = [kind |-> "none", at |-> 0, found |-> 0, warnings |-> {},
               success_count |-> 0, space_mb |-> 0, previous |-> "none"]
  /\ summarizer = NoSummary
  /\ tmp = {}
  /\ mail = NoMail

\* A newly registered account: subscription_tier "free",
\* monthly_minutes_used 0 (the column defaults).
Init ==
  /\ user = Account("free", 0)
  /\ settings = Defaults
  /\ InitStore

Pipeline ==
  \/ \E w \in Workers : \E m \in queue : Receive(w, m)
  \/ \E w \in Workers : Claim(w)
  \/ \E w \in Workers : Stages(w)
  \/ \E w \in Workers : Persist(w)
  \/ \E w \in Workers : Except(w)
  \/ \E w \in Workers : Retry(w)

Sweeper ==
  \/ Tick
  \/ SweepSelect
  \/ SweepCommit(TRUE)

\* Uploads that pass admission, the worker pool under exactly-once delivery,
\* and the sweeper.
Next ==
  \/ upload_video(".mp4", "video/mp4", "en", 1, TRUE)
  \/ Pipeline
  \/ Sweeper

Spec == Init /\ [][Next]_vars

\* The same with the broker's redelivery of unacknowledged messages.
NextRedeliver ==
  \/ Next
  \/ \E w \in Workers : Redeliver(w)

SpecRedeliver == Init /\ [][NextRedeliver]_vars

\* Uploads, the worker pool and transcription requests.
NextRequests ==
  \/ upload_video(".mp4", "video/mp4", "en", 1, TRUE)
  \/ Pipeline
  \/ \E c \in Coroutines : create_transcription(c)

SpecRequests == Init /\ [][NextRequests]_vars

\* Uploads of a video, of an audio file to convert and of a '.wav', and the
\* worker pool.
NextNormalize ==
  \/ \E u \in Uploads : upload_video(u[1], u[2], "en", 1, TRUE)
  \/ Pipeline

SpecNormalize == Init /\ [][NextNormalize]_vars

\* Uploads and the worker pool, with runs that reach the soft time limit.
NextTimeLimit ==
  \/ upload_video(".mp4", "video/mp4", "en", 1, TRUE)
  \/ Pipeline
  \/ \E w \in Workers : SoftTimeLimit(w)

SpecTimeLimit == Init /\ [][NextTimeLimit]_vars

\* The HTTP layer (upload, status query, transcription request) next to the
\* worker pool and the sweeper.
NextHttp ==
  \/ Next
  \/ \E video_id \in Jobs : get_video(video_id)
  \/ \E c \in Coroutines : create_transcription(c)

SpecHttp == Init /\ [][NextHttp]_vars

\* Admission alone, over every tier, usage and request.
InitAdmission ==
  /\ \E tier \in Tiers, used \in UsedValues : user = Account(tier, used)
  /\ settings = Defaults
  /\ InitStore

NextAdmission ==
  \/ \E ct \in ContentTypes, l \in RequestLanguages, sz \in FileSizes :
       upload_video(".mp4", ct, l, sz, TRUE)
  \/ \E ok \in BOOLEAN, l \in RequestLanguages : upload_from_url(ok, l)

SpecAdmission == InitAdmission /\ [][NextAdmission]_vars

\* The sweeper alone, run on every store the schema admits: up to MaxStored
\* videos of any status, age and size, numbered in the order of their
\* creation, with or without an object in the bucket, a completed or an
\* archived one with or without a transcription, and the cleanup flag on or
\* off.
StoredVideos ==
  [user_id : {UserId}, status : StoredStatuses, error_message : {NULL},
   duration_seconds : {NULL}, processed_at : {NULL}, source_url : {NULL},
   created_at : StoredCreated, file_size : StoredSizes]

StoredTranscription(j) ==
  [id |-> j, video_id |-> j, user_id |-> Some(UserId), language |-> "en",
   text |-> "Transcription processing...", summary |-> NULL]

InitSweep ==
  /\ user = Account("free", 0)
  /\ \E flag \in BOOLEAN :
       settings = [Defaults EXCEPT !.ENABLE_CLEANUP_JOB = flag]
  /\ \E n \in 0..MaxStored :
       /\ videos \in [1..n -> StoredVideos]
       /\ \A i, j \in 1..n : i < j => videos[i].created_at <= videos[j].created_at
       /\ transcriptions \in SUBSET {StoredTranscription(j) :
                                       j \in {k \in 1..n : videos[k].status
                                                  \in {"completed", "archived"}}}
       /\ minio \in SUBSET (1..n)
       /\ nextId = n + 1
       /\ nextTid = n + 1
  /\ queue = {}
  /\ downloads = {}
  /\ workers = [w \in Workers |-> Idle]
  /\ sweep = [pc |-> "idle", sel |-> {}]
  /\ coroutines = [c \in Coroutines |-> NoRequest]
  /\ resp = NoResponse
  /\ now = 0
  /\ attempts = [j \in Jobs |-> 0]
  /\ lastFailure = [j \in Jobs |-> NULL]
  /\ redelivered = 0
  /\ report = [kind |-> "none", at |-> 0, found |-> 0, warnings |-> {},
               success_count |-> 0, space_mb |-> 0, previous |-> "none"]
  /\ summarizer = NoSummary
  /\ tmp = {}
  /\ mail = NoMail

SpecSweep == InitSweep /\ [][Sweeper]_vars

\* generate_summary alone, called for a transcription of a completed job with
\* every text made of up to MaxLead sentences of one kind followed by up to
\* MaxTail of another.
RECURSIVE Repeat(_, _)
Repeat(s, n) == IF n = 0 THEN <<>> ELSE Cat(s, Repeat(s, n - 1))

Texts ==
  {Cat(Repeat(k1, n), Repeat(k2, m)) :
     k1 \in SentenceKinds, k2 \in SentenceKinds, n \in 0..MaxLead, m \in 0..MaxTail}

InitSummary ==
  /\ user = Account("free", 0)
  /\ settings = Defaults
  /\ videos = <<[NewVideo(UserId, "completed", NULL, 0, 1)
                   EXCEPT !.duration_seconds = Some(125)]>>
  /\ transcriptions = {StoredTranscription(1)}
  /\ nextId = 2
  /\ nextTid = 2
  /\ queue = {}
  /\ downloads = {}
  /\ workers = [w \in Workers |-> Idle]
  /\ sweep = [pc |-> "idle", sel |-> {}]
  /\ coroutines = [c \in Coroutines |-> NoRequest]
  /\ resp = NoResponse
  /\ now = 0
  /\ attempts = [j \in Jobs |-> 0]
  /\ lastFailure = [j \in Jobs |-> NULL]
  /\ redelivered = 0
  /\ minio = {}
  /\ report = [kind |-> "none", at |-> 0, found |-> 0, warnings |-> {},
               success_count |-> 0, space_mb |-> 0, previous |-> "none"]
  /\ \E text \in Texts :
       summarizer = [NoSummary EXCEPT !.pc = "queued", !.transcription_id = 1,
                                      !.text = text, !.runs = 1]
  /\ tmp = {}
  /\ mail = NoMail

NextSummary ==
  \/ generate_summary
  \/ Resubmit

SpecSummary == InitSummary /\ [][NextSummary]_vars

\* send_transcription_email alone, called any number of times over a store
\* of one job of any status, age and size, a completed or an archived one
\* with or without a transcription, with and without SMTP credentials.
InitNotify ==
  /\ user = Account("free", 0)
  /\ \E u \in {"", "user"}, pw \in {"", "secret"} :
       settings = [Defaults EXCEPT !.SMTP_USER = u, !.SMTP_PASSWORD = pw]
  /\ videos \in [1..1 -> StoredVideos]
  /\ transcriptions \in SUBSET {StoredTranscription(j) :
                                  j \in {k \in 1..1 : videos[k].status
                                             \in {"completed", "archived"}}}
  /\ nextId = 2
  /\ nextTid = 2
  /\ queue = {}
  /\ downloads = {}
  /\ workers = [w \in Workers |-> Idle]
  /\ sweep = [pc |-> "idle", sel |-> {}]
  /\ coroutines = [c \in Coroutines |-> NoRequest]
  /\ resp = NoResponse
  /\ now = 0
  /\ attempts = [j \in Jobs |-> 0]
  /\ lastFailure = [j \in Jobs |-> NULL]
  /\ redelivered = 0
  /\ minio = {}
  /\ report = [kind |-> "none", at |-> 0, found |-> 0, warnings |-> {},
               success_count |-> 0, space_mb |-> 0, previous |-> "none"]
  /\ summarizer = NoSummary
  /\ tmp = {}
  /\ mail = NoMail

NextNotify == \E smtp_ok \in BOOLEAN : send_transcription_email(smtp_ok)

SpecNotify == InitNotify /\ [][NextNotify]_vars

\* Deletion next to the worker pool and transcription requests, over a store
\* of one job of any status, with or without a transcription when it is
\* completed or archived, and with or without a task message of the job in
\* the queue (an upload, or a URL job's with language "auto").
InitDelete ==
  /\ user = Account("free", 0)
  /\ settings = Defaults
  /\ \E st \in StoredStatuses :
       /\ videos = <<NewVideo(UserId, st, NULL, 0, 1)>>
       /\ transcriptions \in SUBSET (IF st \in {"completed", "archived"}
                                        THEN {StoredTranscription(1)} ELSE {})
  /\ nextTid = Cardinality(transcriptions) + 1
  /\ nextId = 2
  /\ \E l \in {"en", "auto"} :
       queue \in SUBSET {TaskMessage(1, TempFile(1, ".mp4"), l, 0)}
  /\ downloads = {}
  /\ workers = [w \in Workers |-> Idle]
  /\ sweep = [pc |-> "idle", sel |-> {}]
  /\ coroutines = [c \in Coroutines |-> NoRequest]
  /\ resp = NoResponse
  /\ now = 0
  /\ attempts = [j \in Jobs |-> 0]
  /\ lastFailure = [j \in Jobs |-> NULL]
  /\ redelivered = 0
  /\ minio = {}
  /\ report = [kind |-> "none", at |-> 0, found |-> 0, warnings |-> {},
               success_count |-> 0, space_mb |-> 0, previous |-> "none"]
  /\ summarizer = NoSummary
  /\ tmp = {}
  /\ mail = NoMail

NextDelete ==
  \/ Pipeline
  \/ \E video_id \in Jobs : delete_video(video_id)
  \/ \E c \in Coroutines : create_transcription(c)

SpecDelete == InitDelete /\ [][NextDelete]_vars

\* The worker pool and the status query over the same stores, a completed
\* job with its transcription among them.  The workers consume the queue for
\* as long as there is a message (celery worker): a step of the pool that
\* stays possible is taken.  No statement of the program sends
\* generate_summary, so no step starts it.
NextCompletion ==
  \/ Pipeline
  \/ \E video_id \in Jobs : get_video(video_id)

SpecCompletion == InitDelete /\ [][NextCompletion]_vars /\ WF_vars(Pipeline)

\* Every operation that runs for an account next to the others: uploads that
\* are admitted and uploads that are refused, the worker pool, a
\* generate_summary task and the sweeper, for a free and for a pro account
\* that has used one minute less than the free limit, or exactly that limit.
InitUsage ==
  /\ \E tier \in {"free", "pro"}, used \in {FREE_MINUTES_LIMIT - 1, FREE_MINUTES_LIMIT} :
       user = Account(tier, used)
  /\ settings = Defaults
  /\ videos = <<>>
  /\ transcriptions = {}
  /\ nextTid = 1
  /\ queue = {}
  /\ downloads = {}
  /\ workers = [w \in Workers |-> Idle]
  /\ sweep = [pc |-> "idle", sel |-> {}]
  /\ coroutines = [c \in Coroutines |-> NoRequest]
  /\ resp = NoResponse
  /\ nextId = 1
  /\ now = 0
  /\ attempts = [j \in Jobs |-> 0]
  /\ lastFailure = [j \in Jobs |-> NULL]
  /\ redelivered = 0
  /\ minio = {}
  /\ report = [kind |-> "none", at |-> 0, found |-> 0, warnings |-> {},
               success_count |-> 0, space_mb |-> 0, previous |-> "none"]
  /\ summarizer = [NoSummary EXCEPT !.pc = "queued", !.transcription_id = 1,
                                    !.text = <<<<"d", 25>>, <<"?", 1>>>>,
                                    !.runs = 1]
  /\ tmp = {}
  /\ mail = NoMail

NextUsage ==
  \/ \E l \in {"en", "fr"} : upload_video(".mp4", "video/mp4", l, 1, TRUE)
  \/ Pipeline
  \/ generate_summary
  \/ Sweeper

SpecUsage == InitUsage /\ [][NextUsage]_vars

\* Uploads with the broker reachable or not, the worker pool and the
\* sweeper.
NextEnqueue ==
  \/ \E broker_up \in BOOLEAN : upload_video(".mp4", "video/mp4", "en", 1, broker_up)
  \/ Pipeline
  \/ Sweeper

SpecEnqueue == Init /\ [][NextEnqueue]_vars

\* The sweeper over the same stores, with a database that accepts the final
\* commit of a run or refuses it.
NextSweepCommit ==
  \/ Tick
  \/ SweepSelect
  \/ \E commit_ok \in BOOLEAN : SweepCommit(commit_ok)

SpecSweepCommit == InitSweep /\ [][NextSweepCommit]_vars

(***************************************************************************)
(* Properties                                                              *)
(***************************************************************************)
\* Worker w is doing stage work.
Processing(w) == workers[w].pc \in {"stages", "persist"}

\* No run and no message of job j is left.
Settled(j) ==
  /\ j \in DOMAIN videos
  /\ attempts[j] > 0
  /\ \A m \in queue : m.video_id # j
  /\ \A w \in Workers : workers[w].pc # "idle" => Task(w).video_id # j

HasTranscript(ts, j) == \E t \in ts : t.video_id = j

\* C1: two workers that execute the claim step for the same job do not both
\* proceed to stage work: at no time are two workers processing the same job.
C1_ExclusiveClaim ==
  \A w1, w2 \in Workers :
    (w1 # w2 /\ Processing(w1) /\ Processing(w2))
      => Task(w1).video_id # Task(w2).video_id

C3_ErrorIsFinal ==
  [][\A j \in DOMAIN videos :
       videos[j].status = "error" => videos'[j].status # "processing"]_vars

\* C4: the status of a job only moves pending/queued -> processing,
\* processing -> completed or error, back into processing on a retry, and to
\* archived; a completed or archived job never moves to processing,
\* completed or error.
C4_Allowed(s, t) ==
  \/ s = t
  \/ s \in {"pending", "queued"} /\ t = "processing"
  \/ s = "processing" /\ t \in {"completed", "error"}
  \/ s = "error" /\ t = "processing"
  \/ s # "archived" /\ t = "archived"

C4_Monotonic ==
  [][\A j \in DOMAIN videos :
       C4_Allowed(videos[j].status, videos'[j].status)]_vars

\* C5: a run whose stages succeeded persists the transcript, the duration
\* and the flip to "completed" in one step, and no state shows a completed
\* job without a transcript.
C5_AtomicPersist ==
  /\ [](\A j \in DOMAIN videos :
          videos[j].status = "completed" => HasTranscript(transcriptions, j))
  /\ [][\A w \in Workers :
          (workers[w].pc = "persist" /\ workers'[w].pc # "persist"
             /\ Task(w).video_id \in DOMAIN videos)
            => /\ videos'[Task(w).video_id].status = "completed"
               /\ videos'[Task(w).video_id].duration_seconds
                    = workers[w].duration_seconds
               /\ HasTranscript(transcriptions', Task(w).video_id)]_vars

\* C6: processed_at is set exactly when the status is completed or error.
C6_ProcessedAt ==
  \A j \in DOMAIN videos :
    (videos[j].processed_at # NULL) <=> (videos[j].status \in {"completed", "error"})

C8_AdmissionFails(r) ==
  \/ user.monthly_minutes_used >=
       (CASE user.subscription_tier = "student" -> 300
          [] user.subscription_tier = "pro" -> 999999
          [] OTHER -> 60)
  \/ /\ r.op = "upload_video"
     /\ \/ r.req[1] \notin {"video/mp4", "video/quicktime", "video/x-msvideo",
                            "video/x-matroska", "video/webm", "audio/mpeg",
                            "audio/wav", "audio/x-m4a", "audio/mp3"}
        \/ r.req[2] \notin {"en", "ru"}
        \/ r.req[3] > 1024 * 1024 * 1024
  \/ /\ r.op = "upload_from_url"
     /\ r.req[2] \notin {"en", "ru", "auto"}

\* C8: a submission that fails admission is answered with an error and
\* leaves the store as it was: no job record, no task enqueued.
C8_RejectionLeavesStore ==
  [][(resp'.seq # resp.seq /\ resp'.op \in {"upload_video", "upload_from_url"}
        /\ C8_AdmissionFails(resp'))
       => /\ resp'.code >= 400
          /\ videos' = videos
          /\ queue' = queue
          /\ downloads' = downloads
          /\ transcriptions' = transcriptions]_vars

\* An upload in an unsupported language has been rejected, after an upload
\* of the same account was admitted.
C8_Rejected ==
  /\ resp.op = "upload_video"
  /\ resp.code = 400
  /\ resp.req = <<"video/mp4", "fr", 1>>
  /\ DOMAIN videos = {1}
  /\ Cardinality(queue) = 1

\* C9: for every tier, a submission is rejected when monthly_minutes_used is
\* at or above the tier's ceiling; below it the quota rejects nothing, and
\* an otherwise valid upload is admitted.
C9_QuotaBoundary ==
  LET ceiling == get_minutes_limit(user.subscription_tier)
      used == user.monthly_minutes_used
  IN  /\ resp.op = "upload_video" =>
           /\ used >= ceiling <=> resp.code = 402
           /\ (used < ceiling /\ resp.req[1] \in AllowedTypes
                 /\ resp.req[2] \in UploadLanguages /\ resp.req[3] <= MaxFileSize)
                => resp.code = 200
      /\ resp.op = "upload_from_url" =>
           /\ used >= ceiling => resp.code >= 400
           /\ used < ceiling => resp.code # 402

\* used == ceiling is rejected.
C9_AtCeiling ==
  /\ user.subscription_tier = "student"
  /\ user.monthly_minutes_used = 300
  /\ resp.op = "upload_video"
  /\ resp.code = 402

\* C10: get_minutes_limit maps free to 60, student to 300, pro to 999999 and
\* every other tier to the free ceiling.
C10_TierTable ==
  resp.op = "upload_video" =>
    resp.minutes_limit =
      (CASE user.subscription_tier = "free" -> 60
         [] user.subscription_tier = "student" -> 300
         [] user.subscription_tier = "pro" -> 999999
         [] OTHER -> 60)

\* An unknown tier got the free ceiling.
C10_UnknownTier ==
  /\ user.subscription_tier = "enterprise"
  /\ resp.op = "upload_video"
  /\ resp.minutes_limit = 60

\* The videos a run of the sweeper started at time t has to archive: not
\* archived, and created before t - STORAGE_RETENTION_DAYS.
Expired(vs, t) ==
  {j \in DOMAIN vs :
     vs[j].status # "archived" /\ vs[j].created_at < t - STORAGE_RETENTION_DAYS}

SweepEnds == sweep.pc = "loop" /\ sweep'.pc = "idle"

\* C11: a run of the sweeper archives every job that is not archived and
\* was created more than STORAGE_RETENTION_DAYS days before the run, and
\* leaves every other job as it was; a run that reports nothing expired
\* found no such job.
C11_ArchivesExpired ==
  [][/\ SweepEnds =>
          \A j \in DOMAIN videos :
            videos'[j] = IF j \in Expired(videos, report.at)
                           THEN [videos[j] EXCEPT !.status = "archived"]
                           ELSE videos[j]
     /\ (sweep.pc = "idle" /\ report'.kind = "no_expired") =>
          /\ Expired(videos, now) = {}
          /\ videos' = videos]_vars

\* A run has archived a job created 8 days before it and has left a
\* completed job created 6 days before it as it was.
C11_EightDaysAndSix ==
  /\ report.kind = "completed"
  /\ report.success_count = 1
  /\ \E j, k \in DOMAIN videos :
       /\ DOMAIN videos = {j, k}
       /\ videos[j].created_at = report.at - 8
       /\ videos[j].status = "archived"
       /\ videos[k].created_at = report.at - 6
       /\ videos[k].status = "completed"

\* C12: with ENABLE_CLEANUP_JOB off, no step scans, deletes an object or
\* changes a job, whatever the jobs' ages.
C12_DisabledIsNoOp ==
  [][~settings.ENABLE_CLEANUP_JOB =>
       /\ sweep' = sweep
       /\ minio' = minio
       /\ videos' = videos
       /\ report'.kind \in {"none", "disabled"}]_vars

\* The sweeper has run with the flag off over a job that is 8 days old, not
\* archived and has its object.
C12_DisabledRun ==
  /\ ~settings.ENABLE_CLEANUP_JOB
  /\ report.kind = "disabled"
  /\ \E j \in DOMAIN videos :
       /\ videos[j].created_at = now - 8
       /\ videos[j].status = "completed"
       /\ j \in minio

\* C13: every job selected by a run is archived by it, whether
\* remove_object succeeded or raised (a warning of the run) for it or for
\* another job of the run.
C13_ArchivedDespiteBlobFailure ==
  [][SweepEnds =>
       /\ report'.warnings \subseteq sweep.sel
       /\ \A j \in sweep.sel : videos'[j].status = "archived"]_vars

\* A run has archived two jobs: the object of one could not be deleted and
\* is still there, the object of the other is gone.
C13_OneBlobFailed ==
  /\ report.kind = "completed"
  /\ report.success_count = 2
  /\ \E j, k \in DOMAIN videos :
       /\ report.warnings = {j}
       /\ j \in minio
       /\ k # j
       /\ k \notin minio
       /\ videos[j].status = "archived"
       /\ videos[k].status = "archived"

\* C14: a run made right after a completed run, at the same instant, finds
\* nothing expired: it selects nothing, deletes no object and leaves the
\* store as the first run left it.
C14_SecondRunIsNoOp ==
  [][(sweep.pc = "idle" /\ report.kind = "completed" /\ report.at = now
        /\ report' # report)
       => /\ report'.kind = "no_expired"
          /\ sweep' = sweep
          /\ videos' = videos
          /\ minio' = minio
          /\ transcriptions' = transcriptions]_vars

\* A second run has followed a run that archived a job whose object could
\* not be deleted; the object is still there.
C14_RanTwice ==
  /\ report.kind = "no_expired"
  /\ report.previous = "completed"
  /\ \E j \in DOMAIN videos :
       /\ videos[j].status = "archived"
       /\ videos[j].created_at < now - STORAGE_RETENTION_DAYS
       /\ j \in minio

\* C15: the sweeper archives a job only from "error" or "completed", and
\* deletes the object only of such a job: a job that is pending, queued or
\* processing when the sweep runs is left alone.
C15_ArchivesOnlyTerminal ==
  [][SweepEnds =>
       \A j \in DOMAIN videos :
         (videos[j].status \in {"pending", "queued", "processing"})
           => /\ videos'[j].status = videos[j].status
              /\ (j \in minio => j \in minio')]_vars

\* C16: no step of the sweeper changes the transcriptions.
C16_TranscriptionsUntouched ==
  [][(sweep' # sweep \/ report' # report) => transcriptions' = transcriptions]_vars

\* A run has archived the one job of the store, and the job's transcription
\* is there with its text.
C16_ArchivedWithTranscription ==
  /\ report.kind = "completed"
  /\ report.success_count = 1
  /\ DOMAIN videos = {1}
  /\ videos[1].status = "archived"
  /\ \E t \in transcriptions :
       t.video_id = 1 /\ t.text = "Transcription processing..."

\* C17: a run reports the number of jobs it moved to "archived" and, as the
\* bytes reclaimed, the sum of the sizes of those jobs.
C17_ReportMatches ==
  [][SweepEnds =>
       LET changed == {j \in DOMAIN videos :
                         videos[j].status # "archived"
                           /\ videos'[j].status = "archived"}
       IN  /\ report'.success_count = Cardinality(changed)
           /\ report'.space_mb * 1024 * 1024
                = 100 * SpaceReclaimed(videos, changed)]_vars

AtLeast20(s) == StrLen(s) >= 20

\* C19: the fragments between '.', '!' and '?' that are at least 20
\* characters long survive; the summary is made of the first 5 of them and
\* the key points are the first 10 of them, or all when there are fewer.
C19_Extraction ==
  summarizer.summary # NULL =>
    LET kept == SelectSeq(Fragments(summarizer.text), AtLeast20)
    IN  /\ summarizer.key_points = Some(FirstN(kept, 10))
        /\ kept # <<>> =>
             summarizer.summary =
               Some(Cat(Join(FirstN(kept, 5), <<<<".", 1>>, <<" ", 1>>>>),
                        <<<<".", 1>>>>))

\* C20: a text without a fragment of at least 20 characters gets as its
\* summary its first 500 characters, all of it when it is shorter, and no
\* key points.
C20_Fallback ==
  summarizer.summary # NULL =>
    LET kept == SelectSeq(Fragments(summarizer.text), AtLeast20)
    IN  kept = <<>> =>
          /\ summarizer.summary =
               Some(IF StrLen(summarizer.text) <= 500
                      THEN summarizer.text
                      ELSE Prefix(summarizer.text, 500))
          /\ summarizer.key_points = Some(<<>>)

\* A text of more than 500 characters without such a fragment got a summary
\* of 500 characters.
C20_Truncated ==
  /\ summarizer.summary # NULL
  /\ LET kept == SelectSeq(Fragments(summarizer.text), AtLeast20) IN kept = <<>>
  /\ StrLen(summarizer.text) > 500
  /\ StrLen(summarizer.summary[1]) = 500
  /\ summarizer.key_points = Some(<<>>)

\* C21: a run whose recognition returned leaves the job "completed" with the
\* duration computed from the segments: the last end time without its
\* fraction, 0 without segments.
C21_DurationPersisted ==
  [][\A w \in Workers :
       (workers[w].pc = "persist" /\ workers'[w].pc # "persist") =>
         LET j == Task(w).video_id
         IN  /\ workers[w].duration_seconds \in {Some(0), Some(125)}
             /\ videos'[j].status = "completed"
             /\ videos'[j].duration_seconds = workers[w].duration_seconds]_vars

\* C22: no step of generate_summary, whether the run ends, fails or has no
\* retry left, changes a row of the videos table.
C22_JobUntouched ==
  [][summarizer' # summarizer => videos' = videos]_vars

\* generate_summary has used up its retries on the transcription of a
\* completed job, which is still completed with its duration.
C22_RetriesExhausted ==
  /\ summarizer.pc = "failed"
  /\ summarizer.retries = generate_summary_max_retries
  /\ \E t \in transcriptions :
       /\ t.id = summarizer.transcription_id
       /\ videos[t.video_id].status = "completed"
       /\ videos[t.video_id].duration_seconds = Some(125)
       /\ videos[t.video_id].error_message = NULL

\* C23: a call of send_transcription_email changes no row of videos and of
\* transcriptions and ends by returning, never by raising; when sending
\* failed it returns the status "error".
C23_MailFailureSuppressed ==
  [][mail' # mail =>
       /\ videos' = videos
       /\ transcriptions' = transcriptions
       /\ mail'.status \in {"email not configured", "sent", "error"}
       /\ mail'.exc # NULL => mail'.status = "error"]_vars

\* A call with SMTP credentials set has failed and returned "error", with a
\* completed job and its transcription in the store.
C23_SendFailed ==
  /\ mail.status = "error"
  /\ mail.exc # NULL
  /\ settings.SMTP_USER # "" /\ settings.SMTP_PASSWORD # ""
  /\ \E j \in DOMAIN videos :
       videos[j].status = "completed" /\ HasTranscript(transcriptions, j)

\* C24: an upload that is admitted creates one job, "pending"; a URL
\* submission that is admitted (valid URL, known language, account below its
\* ceiling) creates one job, "queued", with its source URL; no job is created
\* in another status.
C24_AdmissionStatus ==
  [][resp'.seq # resp.seq =>
       LET new == DOMAIN videos' \ DOMAIN videos
           below == user.monthly_minutes_used
                      < get_minutes_limit(user.subscription_tier)
       IN  /\ \A j \in new : videos'[j].status \in {"pending", "queued"}
           /\ (resp'.op = "upload_video" /\ resp'.code = 200) =>
                 /\ Cardinality(new) = 1
                 /\ \A j \in new : videos'[j].status = "pending"
           /\ (resp'.op = "upload_from_url" /\ below /\ resp'.req[1]
                  /\ resp'.req[2] \in UrlLanguages) =>
                 /\ resp'.code = 200
                 /\ Cardinality(new) = 1
                 /\ \A j \in new : /\ videos'[j].status = "queued"
                                    /\ videos'[j].source_url # NULL]_vars

\* C25: a status query answers with the status, the error message and the
\* duration the job's row holds and writes nothing; and no step of the HTTP
\* layer (upload, status query, transcription request) changes the row of a
\* job.
C25_StatusQueryReadOnly ==
  [][/\ (resp'.seq # resp.seq /\ resp'.op = "get_video") =>
          /\ videos' = videos
          /\ transcriptions' = transcriptions
          /\ resp'.code = 200 =>
               LET video == videos[resp'.req[1]]
               IN  /\ resp'.body[1].status = video.status
                   /\ resp'.body[1].error_message = video.error_message
                   /\ resp'.body[1].duration_seconds = video.duration_seconds
     /\ (resp'.seq # resp.seq \/ coroutines' # coroutines) =>
          \A j \in DOMAIN videos \cap DOMAIN videos' :
            videos'[j] = videos[j]]_vars

\* A status query has answered for a job the pipeline had moved to "error".
C25_QueriedFailedJob ==
  /\ resp.op = "get_video"
  /\ resp.code = 200
  /\ resp.body[1].status = "error"
  /\ resp.body[1].error_message # NULL
  /\ videos[resp.req[1]].status = "error"

\* C26: a run enters its stages (fetch, conversion, recognition) only by the
\* step that commits status "processing" for its job, and no stage has an
\* effect before that step.
C26_ProcessingBeforeStages ==
  [][\A w \in Workers :
       /\ (workers'[w].pc = "stages" /\ workers[w].pc # "stages") =>
            /\ workers[w].pc = "claim"
            /\ videos'[Task(w).video_id].status = "processing"
       /\ (workers'[w].pc = "persist" /\ workers[w].pc # "persist") =>
            workers[w].pc = "stages"
       /\ (workers'[w].exc # workers[w].exc /\ workers'[w].exc # NULL
             /\ workers'[w].exc[1] \in StageErrors) =>
            workers[w].pc = "stages"]_vars

\* A status query was answered "processing" for a job whose run has made
\* the claim and has not yet begun its stages.
C26_SeenProcessingBeforeStages ==
  /\ resp.op = "get_video"
  /\ resp.code = 200
  /\ resp.body[1].status = "processing"
  /\ \E w \in Workers :
       /\ workers[w].pc = "stages"
       /\ Task(w).video_id = resp.req[1]
       /\ workers[w].duration_seconds = NULL
       /\ workers[w].exc = NULL

\* C27: a job whose first run got through fetch, conversion and recognition
\* without an exception is never in "error" after that run.
C27_StagesSucceedNoError ==
  \A j \in DOMAIN videos :
    (attempts[j] = 1 /\ videos[j].status = "error") =>
      /\ lastFailure[j] # NULL
      /\ lastFailure[j][1] \in StageErrors

\* C28: once no run and no message of a job is left and the job is
\* "completed" or "error", no temporary file or directory made for it
\* exists: neither the file the upload handler wrote nor a run's directory.
C28_NoTempLeft ==
  \A j \in DOMAIN videos :
    (Settled(j) /\ videos[j].status \in {"completed", "error"}) =>
      /\ \A f \in tmp : f.dir # <<"mkdtemp", j>>
      /\ \A w \in Workers : workers[w].pc = "idle" => WorkDir(w) \notin tmp

\* C29: a job of which a run reached the time limit is handled as after any
\* exception of a run: once no run and no message of it is left, the job is
\* in "error" with the failure recorded and its retries are used up; it is
\* not left in "processing".
C29_TimeLimitHandled ==
  \A j \in DOMAIN videos :
    Settled(j) =>
      /\ videos[j].status = "error"
      /\ videos[j].error_message = lastFailure[j]
      /\ attempts[j] = max_retries + 1

\* C30: the except block of a run whose conversion failed, in the branch of
\* videos or in that of audio files, leaves the job in "error" with an error
\* message that holds what the conversion tool wrote.
C30_DiagnosticRecorded ==
  [][\A w \in Workers :
       (/\ workers[w].pc = "except"
        /\ workers'[w].pc # "except"
        /\ workers[w].exc[1] \in ConversionErrors(Task(w).file_path.suffix)) =>
         LET j == Task(w).video_id
         IN  /\ videos'[j].status = "error"
             /\ videos'[j].error_message # NULL
             /\ "stderr" \in Carries(videos'[j].error_message[1])]_vars

\* C31: deleting a job removes the job and every transcription of it; no
\* transcription refers to a job that does not exist, whatever the
\* interleaving of delete_video with a run of transcribe_video; a run that
\* ends after the deletion stores no transcription and does not bring the job
\* back.
C31_DeleteCascades ==
  [][/\ \A t \in transcriptions' : t.video_id \in DOMAIN videos'
     /\ \A j \in Jobs :
          (resp'.seq # resp.seq /\ resp'.op = "delete_video"
             /\ resp'.code = 200 /\ resp'.req = <<j>>)
            => /\ j \in DOMAIN videos
               /\ j \notin DOMAIN videos'
               /\ ~HasTranscript(transcriptions', j)
     /\ DOMAIN videos' \subseteq DOMAIN videos
     /\ workers' # workers =>
          /\ DOMAIN videos' = DOMAIN videos
          /\ \A w \in Workers :
               (workers[w].pc # "idle" /\ Task(w).video_id \notin DOMAIN videos)
                 => transcriptions' = transcriptions]_vars

\* A job that had a transcription was deleted while a run of it was in
\* flight; the run has since passed its except block, and neither the job nor
\* a transcription is there.
C31_RunOutlivesJob ==
  /\ videos = <<>>
  /\ transcriptions = {}
  /\ nextTid > 1
  /\ resp.op = "delete_video"
  /\ resp.code = 200
  /\ \E w \in Workers : workers[w].pc = "retry" /\ Task(w).video_id = 1

C34_CompletedHasNoError ==
  [][/\ \A j \in DOMAIN videos' :
          videos'[j].status = "completed" => videos'[j].error_message = NULL
     /\ \A w \in Workers :
          (workers[w].pc = "persist" /\ workers'[w].pc # "persist"
             /\ Task(w).retries > 0 /\ Task(w).video_id \in DOMAIN videos
             /\ videos[Task(w).video_id].error_message # NULL)
            => /\ videos'[Task(w).video_id].status = "completed"
               /\ videos'[Task(w).video_id].error_message = NULL]_vars

\* C35: the persist block of a run stores a transcription of the job that
\* carries the user_id of the job's owner, and every stored transcription
\* carries the user_id of its job's owner, so that the queries filtered by
\* Transcription.user_id return it.
C35_PipelineRowHasOwner ==
  [][/\ \A t \in transcriptions' :
          t.video_id \in DOMAIN videos' =>
            t.user_id = Some(videos'[t.video_id].user_id)
     /\ \A w \in Workers :
          (workers[w].pc = "persist" /\ workers'[w].pc # "persist"
             /\ Task(w).video_id \in DOMAIN videos)
            => \E t \in transcriptions' \ transcriptions :
                 /\ t.video_id = Task(w).video_id
                 /\ t.user_id = Some(videos[Task(w).video_id].user_id)]_vars

\* C36: no step of admission, of the pipeline, of generate_summary or of the
\* sweeper changes the account's monthly_minutes_used, so the outcome of the
\* quota check of the account is the same after any of them as before.
C36_UsageUnchanged ==
  [][/\ user'.monthly_minutes_used = user.monthly_minutes_used
     /\ QuotaExceeded(user'.monthly_minutes_used,
                      get_minutes_limit(user'.subscription_tier))
          = QuotaExceeded(user.monthly_minutes_used,
                          get_minutes_limit(user.subscription_tier))]_vars

\* An account one minute below the free limit had an upload admitted; the
\* job's runs are over and the sweeper has archived it; a later upload of the
\* account passed the quota check again (it was refused for its language).
C36_AdmittedAgain ==
  /\ user = Account("free", FREE_MINUTES_LIMIT - 1)
  /\ Settled(1)
  /\ videos[1].status = "archived"
  /\ summarizer.pc = "failed"
  /\ resp.op = "upload_video"
  /\ resp.code = 400
  /\ resp.req = <<"video/mp4", "fr", 1>>

\* Job j has its record, and neither a message nor a run of it has ever
\* existed: its upload failed at transcribe_video.delay.
NeverEnqueued(j) ==
  /\ j \in DOMAIN videos
  /\ attempts[j] = 0
  /\ \A m \in queue : m.video_id # j

\* C37: an upload commits the record as "pending" before it enqueues the
\* task, so every message and every run is of a job whose record was
\* committed; and a job whose enqueue failed after the commit stays
\* "pending": no later step changes its status.
C37_PendingUnlessEnqueued ==
  [][/\ \A m \in queue' \ queue :
          m.video_id \in DOMAIN videos' /\ m.video_id < nextId'
     /\ \A w \in Workers :
          (workers[w].pc = "idle" /\ workers'[w].pc = "claim")
            => workers'[w].task[1].video_id \in DOMAIN videos
     /\ \A j \in DOMAIN videos' \ DOMAIN videos :
          videos'[j].status = "pending"
     /\ \A j \in Jobs :
          NeverEnqueued(j) =>
            /\ j \in DOMAIN videos'
            /\ videos'[j].status = "pending"
            /\ attempts'[j] = 0]_vars

\* C38: when a run of the sweeper ends, every job whose object the run
\* removed from the bucket is archived, also when the run's commit failed
\* and was rolled back.
C38_RemovedImpliesArchived ==
  [][SweepEnds =>
       \A j \in minio \ minio' :
         j \in DOMAIN videos' => videos'[j].status = "archived"]_vars


====
